---- MODULE Spec2Model ----
(***************************************************************************)
(* Project Links: the storage layer behind the task manager.               *)
(*                                                                         *)
(* The model is the database after both SQL migrations were applied, in    *)
(* the order "seed data" then "fix profile creation trigger": the second   *)
(* one drops handle_new_user() and recreates it, so the trigger that runs  *)
(* on auth.users is the one with the EXCEPTION block.  Table constraints   *)
(* are those of the data definition in the architecture document; the      *)
(* columns of a profile row are those the migrations insert.               *)
(*                                                                         *)
(* A table is a set of rows (records); primary keys, foreign keys, CHECK    *)
(* constraints and row level security are written out where the statement  *)
(* that depends on them is modelled.                                       *)
(***************************************************************************)
EXTENDS Integers, Sequences, FiniteSets, TLC

\* SQL NULL.
NULL == "NULL"

\* ----------------------------------------------------------------------
\* Bounds of the model
\* ----------------------------------------------------------------------

\* The clock runs from 0 to MaxTime.
MaxTime == 1

\* Identity ids, the two other principals, and the ids rows can get.
Users == {"u1", "u2"}
ServiceRole == "service_role"
Anon == "anon"
CategoryIds == {"c1", "c2"}
TaskIds == {"t1", "t2"}

\* The calls of the task store that can be in flight together.
ReqIds == {"r1", "r2"}

\* Values a caller may send.
Emails == {"a@x.com"}
FullNames == {NULL, "Alice"}
RepairEmails == {"a@x.com", "z@x.com"}
RepairNames == {NULL, "Mallory"}
ProfilePatches == {[full_name |-> "Al", preferences |-> "{darkMode}"]}
CategoryNames == {"Work", "Misc"}
StatusInputs == {"pending", "in_progress", "completed", "archived", NULL}

PriorityInputs == {"low", "high", "urgent", NULL}

\* Due dates: the day before the clock starts, that day, the day after, none.
DueInputs == {"2024-12-31", "2025-01-01", "2025-01-02", NULL}

VARIABLES
    identities,   \* auth.users: rows [id, email, full_name] (full_name = raw_user_meta_data->>'full_name')
    profiles,     \* public.profiles: rows [id, email, full_name, preferences]
    categories,   \* public.categories: rows [id, name, color, user_id]
    tasks,        \* public.tasks: rows [id, user_id, category_id, status, priority, due_date,
                  \*                     updated_at]
    now,          \* NOW()
    last,         \* the statement that ran last: [op, by, id, ok, note, n]
    result,       \* the rows or the value the last statement returned
    provisioned,  \* ids whose trigger inserted the profile
    repaired,     \* ids for which ensure_user_profile returned without error
    taskStore,    \* useTaskStore: [tasks, categories, loading, error]
    authStore,    \* useAuthStore: [user, loading, error, initialized, isRateLimited,
                  \*               rateLimitCooldown, lastAttemptTime]
    timers,       \* the pending setTimeout callbacks of setRateLimit: their due times
    calls,        \* the signIn and signUp calls of the browser, each with its position
    detectedAt,   \* the time the last rate-limit response was detected: {} or {t}
    authSession,  \* whose session the browser holds: a user id, or anon for none
    requests,     \* the task store's calls in flight, each with its position
    selectedTasks,\* the tasks page: ids of the selected tasks
    bulk,         \* the tasks page: the bulk operation in flight
    loads,        \* loadUserProfile calls in flight: [user, from]
    lastEvent     \* the auth event the store's listener handled last; "off" before
                  \* the listener is registered, "none" before its first event

\* The session, the requests in flight and the page.
page == <<authSession, requests, selectedTasks, bulk, loads, lastEvent>>

\* The browser's side.
client == <<taskStore, authStore, timers, calls, detectedAt, page>>

vars == <<identities, profiles, categories, tasks, now, last, result, provisioned, repaired,
          taskStore, authStore, timers, calls, detectedAt, authSession, requests, selectedTasks,
          bulk, loads, lastEvent>>

\* ----------------------------------------------------------------------
\* Principals
\* ----------------------------------------------------------------------

\* auth.uid(): the id of the signed-in user, NULL for anon and service_role.
auth_uid(p) == IF p \in Users THEN p ELSE NULL

\* auth.role()
auth_role(p) == IF p \in Users THEN "authenticated" ELSE p

Ids(rows) == {r.id : r \in rows}

\* Who can issue a statement: a signed-in live identity, anon, service_role.
Callers == Ids(identities) \cup {Anon, ServiceRole}

\* GRANT EXECUTE ON FUNCTION public.ensure_user_profile ... TO authenticated,
\* TO service_role
EnsureUserProfileGrants == {"authenticated", "service_role"}

\* CREATE FUNCTION gives EXECUTE to PUBLIC, and no migration revokes it.
DefaultFunctionPrivileges == {"PUBLIC"}

\* GRANT EXECUTE ON FUNCTION ... TO authenticated, for the seeding and the two
\* statistics functions
ExecuteGrants ==
    [ensure_user_profile |-> DefaultFunctionPrivileges \cup EnsureUserProfileGrants,
     create_default_categories_for_user |-> DefaultFunctionPrivileges \cup {"authenticated"},
     get_task_statistics |-> DefaultFunctionPrivileges \cup {"authenticated"},
     get_category_statistics |-> DefaultFunctionPrivileges \cup {"authenticated"}]

CanExecute(fn, p) ==
    "PUBLIC" \in ExecuteGrants[fn] \/ auth_role(p) \in ExecuteGrants[fn]

\* COALESCE(x, '')
Coalesce(x) == IF x = NULL THEN "" ELSE x

Op(op, by, id, ok, note, n) ==
    [op |-> op, by |-> by, id |-> id, ok |-> ok, note |-> note, n |-> n]

\* ----------------------------------------------------------------------
\* Provisioning trigger and repair procedure
\* ----------------------------------------------------------------------

ProfileRow(id, email, full_name) ==
    [id |-> id, email |-> Coalesce(email), full_name |-> Coalesce(full_name),
     preferences |-> "{}"]

\* The trigger without its EXCEPTION block: the error reaches the INSERT on
\* auth.users.
handle_new_user_unhandled(profs, new_user, insertFails) ==
    IF insertFails \/ new_user.id \in Ids(profs)
        THEN [raised |-> TRUE, created |-> FALSE, profiles |-> profs]
        ELSE [raised |-> FALSE, created |-> TRUE,
              profiles |-> profs \cup {ProfileRow(new_user.id, new_user.email, new_user.full_name)}]

\* handle_new_user(): insert the profile; WHEN OTHERS the error is logged and
\* the trigger returns NEW.  insertFails stands for any error of the INSERT.
handle_new_user(profs, new_user, insertFails) ==
    IF insertFails \/ new_user.id \in Ids(profs)
        THEN [raised |-> FALSE, created |-> FALSE, profiles |-> profs]
        ELSE [raised |-> FALSE, created |-> TRUE,
              profiles |-> profs \cup {ProfileRow(new_user.id, new_user.email, new_user.full_name)}]

\* INSERT INTO auth.users, with the AFTER INSERT trigger on_auth_user_created
\* in the same transaction: an error the trigger raises rolls the row back.
CreateIdentity(u, email, full_name, insertFails) ==
    /\ u \notin Ids(identities)
    /\ LET new_user == [id |-> u, email |-> email, full_name |-> full_name]
           r == handle_new_user(profiles, new_user, insertFails)
       IN  IF r.raised
             THEN /\ UNCHANGED <<identities, profiles, provisioned>>
                  /\ last' = Op("create_identity", Anon, u, FALSE, "trigger_error", 0)
             ELSE /\ identities' = identities \cup {new_user}
                  /\ profiles' = r.profiles
                  /\ provisioned' = IF r.created THEN provisioned \cup {u} ELSE provisioned
                  /\ last' = Op("create_identity", Anon, u, TRUE,
                                IF r.created THEN "profile_created" ELSE "trigger_failed", 0)
    /\ result' = {}
    /\ UNCHANGED <<categories, tasks, now, repaired>>

\* The unique indexes of the data definition: each table's primary key.  The
\* categories table has no UNIQUE (name, user_id).
UniqueIndexes ==
    [profiles |-> {<<"id">>}, categories |-> {<<"id">>}, tasks |-> {<<"id">>}]

\* INSERT ... ON CONFLICT (cols): the columns must be those of a unique index
\* of the table, or the statement fails ("there is no unique or exclusion
\* constraint matching the ON CONFLICT specification").
HasArbiter(table, cols) == cols \in UniqueIndexes[table]

\* A repair that overwrites the row it finds (ON CONFLICT ... DO UPDATE).
ensure_user_profile_upsert(profs, ids, user_id, user_email, user_name) ==
    IF user_id \notin ids
        THEN [error |-> "fk_violation", created |-> FALSE, profiles |-> profs]
        ELSE [error |-> NULL, created |-> user_id \notin Ids(profs),
              profiles |-> {p \in profs : p.id # user_id}
                             \cup {ProfileRow(user_id, user_email, user_name)}]

\* A repair whose existence test is inverted: it inserts nothing when the
\* profile is missing.
ensure_user_profile_skip(profs, ids, user_id, user_email, user_name) ==
    IF user_id \notin ids
        THEN [error |-> "fk_violation", created |-> FALSE, profiles |-> profs]
        ELSE [error |-> NULL, created |-> FALSE, profiles |-> profs]

\* A repair with a plain INSERT: the duplicate key is an error of the call.
ensure_user_profile_raise(profs, ids, user_id, user_email, user_name) ==
    IF user_id \notin ids
        THEN [error |-> "fk_violation", created |-> FALSE, profiles |-> profs]
    ELSE IF user_id \in Ids(profs)
        THEN [error |-> "unique_violation", created |-> FALSE, profiles |-> profs]
        ELSE [error |-> NULL, created |-> TRUE,
              profiles |-> profs \cup {ProfileRow(user_id, user_email, user_name)}]

\* ensure_user_profile(user_id, user_email, user_name): INSERT ... ON CONFLICT
\* (id) DO NOTHING.  profiles.id REFERENCES auth.users(id): an id that is no
\* identity is a foreign key violation, which the function does not catch.
ensure_user_profile(profs, ids, user_id, user_email, user_name) ==
    IF ~HasArbiter("profiles", <<"id">>)
        THEN [error |-> "no_arbiter", created |-> FALSE, profiles |-> profs]
    ELSE IF user_id \notin ids
        THEN [error |-> "fk_violation", created |-> FALSE, profiles |-> profs]
    ELSE IF user_id \in Ids(profs)
        THEN [error |-> NULL, created |-> FALSE, profiles |-> profs]
        ELSE [error |-> NULL, created |-> TRUE,
              profiles |-> profs \cup {ProfileRow(user_id, user_email, user_name)}]

\* rpc('ensure_user_profile', ...).  The function is SECURITY DEFINER and
\* reads neither auth.uid() nor auth.role().
EnsureUserProfile(by, user_id, user_email, user_name) ==
    /\ by \in Callers
    /\ IF ~CanExecute("ensure_user_profile", by)
         THEN /\ UNCHANGED <<profiles, repaired>>
              /\ last' = Op("ensure_user_profile", by, user_id, FALSE, "denied", 0)
         ELSE LET r == ensure_user_profile(profiles, Ids(identities), user_id,
                                           user_email, user_name)
              IN  /\ profiles' = r.profiles
                  /\ repaired' = IF r.error = NULL THEN repaired \cup {user_id} ELSE repaired
                  /\ last' = Op("ensure_user_profile", by, user_id, r.error = NULL,
                                IF r.error # NULL THEN r.error
                                ELSE IF r.created THEN "created" ELSE "conflict", 0)
    /\ result' = {}
    /\ UNCHANGED <<identities, categories, tasks, now, provisioned>>

\* "Users can update own profile": FOR UPDATE USING (auth.uid() = id)
profiles_update_policy(p, row) == auth_uid(p) # NULL /\ auth_uid(p) = row.id

\* from('profiles').update(profileData).eq('id', id)
ProfileUpdate(by, id, patch) ==
    /\ by \in Callers \ {ServiceRole}
    /\ LET hit == {p \in profiles : p.id = id /\ profiles_update_policy(by, p)}
       IN  /\ profiles' = (profiles \ hit) \cup
                  {[p EXCEPT !.full_name = patch.full_name,
                             !.preferences = patch.preferences] : p \in hit}
           /\ last' = Op("profile_update", by, id, TRUE, "", Cardinality(hit))
    /\ result' = {}
    /\ UNCHANGED <<identities, categories, tasks, now, provisioned, repaired>>

\* ----------------------------------------------------------------------
\* Row level security on profiles
\* ----------------------------------------------------------------------

\* A session of the API: the principal of the request's token and the
\* application_name of the connection.  The API server logs in with a role of
\* its own and switches to the role of the token for the request.
Session(principal, application_name) ==
    [principal |-> principal, application_name |-> application_name]

SessionUser == "authenticator"

\* current_setting('role') and current_user: the role switched to.
current_role(session) == auth_role(session.principal)

\* s LIKE '%pat%', on strings as sequences of characters.
Like(s, pat) ==
    \E i \in 0..(Len(s) - Len(pat)) : SubSeq(s, i + 1, i + Len(pat)) = pat

\* application_name values: 'postgrest', 'trigger_fn'.
ApplicationNames ==
    {<<"p", "o", "s", "t", "g", "r", "e", "s", "t">>,
     <<"t", "r", "i", "g", "g", "e", "r", "_", "f", "n">>}

\* The pattern of "Allow trigger to insert profiles".
TriggerPattern == <<"t", "r", "i", "g", "g", "e", "r">>

\* Insert policies that let every row in.
profiles_insert_policy_open(session, row) == TRUE

\* The policies FOR INSERT on profiles, any of which lets the row in:
\* "Allow service role to insert profiles", "Users can insert own profile",
\* "Allow trigger to insert profiles".
profiles_insert_policy(session, row) ==
    \/ auth_role(session.principal) = "service_role"
    \/ \/ auth_uid(session.principal) # NULL /\ auth_uid(session.principal) = row.id
       \/ auth_role(session.principal) = "service_role"
       \/ current_role(session) = "service_role"
    \/ \/ Like(session.application_name, TriggerPattern)
       \/ current_role(session) = "postgres"
       \/ SessionUser = "postgres"

\* "Users can view own profile": FOR SELECT USING (auth.uid() = id)
profiles_select_policy(p, row) == auth_uid(p) # NULL /\ auth_uid(p) = row.id

\* from('profiles').insert(row)
ProfileInsert(session, id, full_name) ==
    /\ session.principal \in Callers
    /\ LET row == [id |-> id, email |-> "", full_name |-> full_name, preferences |-> "{}"]
           error == IF ~profiles_insert_policy(session, row) THEN "rls"
                    ELSE IF id \in Ids(profiles) THEN "duplicate_key"
                    ELSE IF id \notin Ids(identities) THEN "fk_violation"
                    ELSE ""
           note == IF error # "" THEN error
                   ELSE IF Like(session.application_name, TriggerPattern)
                     THEN "trigger_session"
                     ELSE ""
       IN  /\ profiles' = IF error = "" THEN profiles \cup {row} ELSE profiles
           /\ last' = Op("profile_insert", session.principal, id, error = "", note,
                         IF error = "" THEN 1 ELSE 0)
    /\ result' = {}
    /\ UNCHANGED <<identities, categories, tasks, now, provisioned, repaired>>

\* from('profiles').select('*').eq('id', id)
ProfileSelect(by, id) ==
    /\ by \in Callers \ {ServiceRole}
    /\ LET rows == {p \in profiles : p.id = id /\ profiles_select_policy(by, p)}
       IN  /\ result' = rows
           /\ last' = Op("profile_select", by, id, TRUE, "", Cardinality(rows))
    /\ UNCHANGED <<identities, profiles, categories, tasks, now, provisioned, repaired>>

\* from('profiles').delete().eq('id', id): no policy is FOR DELETE or FOR ALL,
\* so no row passes.
ProfileDelete(by, id) ==
    /\ by \in Callers \ {ServiceRole}
    /\ LET hit == {p \in profiles : p.id = id /\ FALSE}
       IN  /\ profiles' = profiles \ hit
           /\ last' = Op("profile_delete", by, id, TRUE, "", Cardinality(hit))
    /\ result' = {}
    /\ UNCHANGED <<identities, categories, tasks, now, provisioned, repaired>>

\* ----------------------------------------------------------------------
\* Tables: grants, row level security, constraints
\* ----------------------------------------------------------------------

\* GRANT SELECT ON categories, tasks TO anon; GRANT ALL PRIVILEGES ... TO
\* authenticated.
TableGrant(p, cmd) ==
    \/ auth_role(p) = "authenticated"
    \/ auth_role(p) = "anon" /\ cmd = "select"

\* A policy that lets every row through.
owner_policy_open(p, row) == TRUE

\* "Users can manage own categories" / "Users can manage own tasks":
\* USING (auth.uid() = user_id), for every command.  With no WITH CHECK the
\* USING expression is also what a new row (INSERT, UPDATE) must satisfy.  NULL
\* = x is not true.
owner_policy(p, row) ==
    auth_uid(p) # NULL /\ row.user_id # NULL /\ auth_uid(p) = row.user_id

\* CHECK (status IN ('pending', 'in_progress', 'completed')).  The column is
\* nullable and a CHECK is satisfied when its expression is NULL.
status_check(status) ==
    status = NULL \/ status \in {"pending", "in_progress", "completed"}

\* CHECK (priority IN ('low', 'medium', 'high')), on a nullable column too.
priority_check(priority) ==
    priority = NULL \/ priority \in {"low", "medium", "high"}

\* priority VARCHAR(10) DEFAULT 'medium'
DefaultPriority == "medium"

\* category_id REFERENCES categories(id)
category_fk(cats, category_id) == category_id = NULL \/ category_id \in Ids(cats)

\* user_id REFERENCES auth.users(id)
user_fk(ids, user_id) == user_id = NULL \/ user_id \in ids

\* update_updated_at_column(), BEFORE UPDATE ON tasks FOR EACH ROW
update_updated_at_column(row, t) == [row EXCEPT !.updated_at = t]

TaskRowOk(row) ==
    /\ status_check(row.status)
    /\ priority_check(row.priority)
    /\ category_fk(categories, row.category_id)
    /\ user_fk(Ids(identities), row.user_id)

Frame(changed) ==
    /\ result' = {}
    /\ UNCHANGED <<identities, profiles, now, provisioned, repaired>>
    /\ changed

\* ----------------------------------------------------------------------
\* Statements on tasks
\* ----------------------------------------------------------------------

\* from('tasks').insert(values); the id is gen_random_uuid().
TaskInsertRow(by, id, values) ==
    /\ by \in Callers \ {ServiceRole}
    /\ id \notin Ids(tasks)
    /\ LET row == [id |-> id, user_id |-> values.user_id,
                   category_id |-> values.category_id, status |-> values.status,
                   priority |-> values.priority, due_date |-> values.due_date,
                   updated_at |-> now]
           note == IF ~TableGrant(by, "insert") THEN "denied"
                   ELSE IF ~TaskRowOk(row) THEN "constraint"
                   ELSE IF ~owner_policy(by, row) THEN "rls"
                   ELSE ""
       IN  /\ tasks' = IF note = "" THEN tasks \cup {row} ELSE tasks
           /\ last' = Op("task_insert", by, id, note = "", note,
                         IF note = "" THEN 1 ELSE 0)
    /\ Frame(UNCHANGED categories)

\* An insert that leaves the priority to the column's default.
TaskInsert(by, id, user_id, category_id, status, due_date) ==
    TaskInsertRow(by, id, [user_id |-> user_id, category_id |-> category_id,
                           status |-> status, priority |-> DefaultPriority,
                           due_date |-> due_date])

\* from('tasks').update({col: value}).eq('id', id)
TaskUpdate(by, id, col, value) ==
    /\ by \in Callers \ {ServiceRole}
    /\ LET hit == {t \in tasks : t.id = id /\ owner_policy(by, t)}
           new == {update_updated_at_column([t EXCEPT ![col] = value], now) : t \in hit}
           note == IF ~TableGrant(by, "update") THEN "denied"
                   ELSE IF \E r \in new : ~TaskRowOk(r) THEN "constraint"
                   ELSE IF \E r \in new : ~owner_policy(by, r) THEN "rls"
                   ELSE ""
       IN  /\ tasks' = IF note = "" THEN (tasks \ hit) \cup new ELSE tasks
           /\ last' = Op("task_update", by, id, note = "", note,
                         IF note = "" THEN Cardinality(hit) ELSE 0)
    /\ Frame(UNCHANGED categories)

\* from('tasks').delete().eq('id', id)
TaskDelete(by, id) ==
    /\ by \in Callers \ {ServiceRole}
    /\ LET hit == {t \in tasks : t.id = id /\ owner_policy(by, t)}
           note == IF ~TableGrant(by, "delete") THEN "denied" ELSE ""
       IN  /\ tasks' = IF note = "" THEN tasks \ hit ELSE tasks
           /\ last' = Op("task_delete", by, id, note = "", note,
                         IF note = "" THEN Cardinality(hit) ELSE 0)
    /\ Frame(UNCHANGED categories)

\* from('tasks').select('*')
TaskSelect(by) ==
    /\ by \in Callers \ {ServiceRole}
    /\ LET rows == {t \in tasks : owner_policy(by, t)}
       IN  /\ result' = rows
           /\ last' = Op("task_select", by, NULL, TRUE, "", Cardinality(rows))
    /\ UNCHANGED <<identities, profiles, categories, tasks, now, provisioned, repaired>>

\* ----------------------------------------------------------------------
\* Statements on categories
\* ----------------------------------------------------------------------

DefaultColor == "#3B82F6"

\* from('categories').insert(row)
CategoryInsert(by, id, name, user_id) ==
    /\ by \in Callers \ {ServiceRole}
    /\ id \notin Ids(categories)
    /\ LET row == [id |-> id, name |-> name, color |-> DefaultColor, user_id |-> user_id]
           note == IF ~TableGrant(by, "insert") THEN "denied"
                   ELSE IF ~user_fk(Ids(identities), user_id) THEN "constraint"
                   ELSE IF ~owner_policy(by, row) THEN "rls"
                   ELSE ""
       IN  /\ categories' = IF note = "" THEN categories \cup {row} ELSE categories
           /\ last' = Op("category_insert", by, id, note = "", note,
                         IF note = "" THEN 1 ELSE 0)
    /\ Frame(UNCHANGED tasks)

\* from('categories').update({name}).eq('id', id)
CategoryUpdate(by, id, name) ==
    /\ by \in Callers \ {ServiceRole}
    /\ LET hit == {c \in categories : c.id = id /\ owner_policy(by, c)}
           note == IF ~TableGrant(by, "update") THEN "denied" ELSE ""
       IN  /\ categories' = IF note = ""
                              THEN (categories \ hit) \cup {[c EXCEPT !.name = name] : c \in hit}
                              ELSE categories
           /\ last' = Op("category_update", by, id, note = "", note,
                         IF note = "" THEN Cardinality(hit) ELSE 0)
    /\ Frame(UNCHANGED tasks)

\* ON DELETE SET NULL that removes the referencing tasks instead (CASCADE).
set_null_cascade(rows, gone, t) == {r \in rows : r.category_id \notin gone}

\* tasks.category_id REFERENCES categories(id) ON DELETE SET NULL: an UPDATE of
\* every referencing task, whoever owns it, which fires the tasks' BEFORE
\* UPDATE trigger.
set_null(rows, gone, t) ==
    {IF r.category_id \in gone
       THEN update_updated_at_column([r EXCEPT !.category_id = NULL], t)
       ELSE r : r \in rows}

\* from('categories').delete().eq('id', id)
CategoryDelete(by, id) ==
    /\ by \in Callers \ {ServiceRole}
    /\ LET hit == {c \in categories : c.id = id /\ owner_policy(by, c)}
           note == IF ~TableGrant(by, "delete") THEN "denied" ELSE ""
           refs == {t \in tasks : t.category_id \in Ids(hit)}
       IN  /\ categories' = IF note = "" THEN categories \ hit ELSE categories
           /\ tasks' = IF note = "" THEN set_null(tasks, Ids(hit), now) ELSE tasks
           /\ last' = Op("category_delete", by, id, note = "", note,
                         IF note = "" THEN Cardinality(refs) ELSE 0)
    /\ Frame(TRUE)

\* from('categories').select('*')
CategorySelect(by) ==
    /\ by \in Callers \ {ServiceRole}
    /\ LET rows == {c \in categories : owner_policy(by, c)}
       IN  /\ result' = rows
           /\ last' = Op("category_select", by, NULL, TRUE, "", Cardinality(rows))
    /\ UNCHANGED <<identities, profiles, categories, tasks, now, provisioned, repaired>>

\* Time passes.
Tick ==
    /\ now < MaxTime
    /\ now' = now + 1
    /\ last' = Op("tick", Anon, NULL, TRUE, "", 0)
    /\ result' = {}
    /\ UNCHANGED <<identities, profiles, categories, tasks, provisioned, repaired>>

\* ----------------------------------------------------------------------
\* Default categories, identity removal
\* ----------------------------------------------------------------------

DefaultCategories ==
    <<[name |-> "Work", color |-> "#3B82F6"],
      [name |-> "Personal", color |-> "#10B981"],
      [name |-> "Learning", color |-> "#F59E0B"],
      [name |-> "Health", color |-> "#EF4444"],
      [name |-> "Finance", color |-> "#8B5CF6"]>>

DefaultNames == {DefaultCategories[i].name : i \in DOMAIN DefaultCategories}

RECURSIVE InsertSkippingConflicts(_, _, _, _)
\* The VALUES list row by row: a row whose (name, user_id) is there is skipped.
InsertSkippingConflicts(cats, user_id, defaults, free) ==
    IF defaults = <<>> THEN cats
    ELSE LET d == Head(defaults)
         IN  IF \E c \in cats : c.name = d.name /\ c.user_id = user_id
               THEN InsertSkippingConflicts(cats, user_id, Tail(defaults), free)
               ELSE LET id == CHOOSE x \in free : TRUE
                    IN  InsertSkippingConflicts(
                            cats \cup {[id |-> id, name |-> d.name, color |-> d.color,
                                        user_id |-> user_id]},
                            user_id, Tail(defaults), free \ {id})

\* create_default_categories_for_user(user_id): INSERT five rows ON CONFLICT
\* (name, user_id) DO NOTHING.
create_default_categories_for_user(cats, ids, user_id) ==
    IF ~HasArbiter("categories", <<"name", "user_id">>)
        THEN [error |-> "no_arbiter", categories |-> cats]
    ELSE IF ~user_fk(ids, user_id)
        THEN [error |-> "fk_violation", categories |-> cats]
        ELSE [error |-> NULL,
              categories |-> InsertSkippingConflicts(cats, user_id, DefaultCategories,
                                                     CategoryIds \ Ids(cats))]

\* rpc('create_default_categories_for_user', {user_id})
SeedDefaultCategories(by, user_id) ==
    /\ by \in Callers
    /\ IF ~CanExecute("create_default_categories_for_user", by)
         THEN /\ UNCHANGED categories
              /\ last' = Op("seed_categories", by, user_id, FALSE, "denied", 0)
         ELSE LET r == create_default_categories_for_user(categories, Ids(identities),
                                                          user_id)
              IN  /\ categories' = r.categories
                  /\ last' = Op("seed_categories", by, user_id, r.error = NULL,
                                IF r.error = NULL THEN "" ELSE r.error,
                                Cardinality(r.categories \ categories))
    /\ Frame(UNCHANGED tasks)

\* profiles.id REFERENCES auth.users(id): no ON DELETE clause, which is NO
\* ACTION: a referenced identity cannot be deleted.
profiles_on_delete(profs, id) ==
    IF id \in Ids(profs)
        THEN [error |-> "fk_violation", profiles |-> profs]
        ELSE [error |-> NULL, profiles |-> profs]

\* DELETE FROM auth.users WHERE id = u (the Identity Provider's admin API).
\* categories.user_id and tasks.user_id are ON DELETE CASCADE; the categories
\* that go set the category_id of the tasks that stay to NULL.
DeleteIdentity(u) ==
    /\ u \in Ids(identities)
    /\ LET r == profiles_on_delete(profiles, u)
           gone == {c \in categories : c.user_id = u}
       IN  IF r.error # NULL
             THEN /\ UNCHANGED <<identities, profiles, categories, tasks,
                                 provisioned, repaired>>
                  /\ last' = Op("delete_identity", ServiceRole, u, FALSE, r.error, 0)
             ELSE /\ identities' = {i \in identities : i.id # u}
                  /\ profiles' = r.profiles
                  /\ categories' = categories \ gone
                  /\ tasks' = set_null({t \in tasks : t.user_id # u}, Ids(gone), now)
                  /\ provisioned' = provisioned \ {u}
                  /\ repaired' = repaired \ {u}
                  /\ last' = Op("delete_identity", ServiceRole, u, TRUE, "", 0)
    /\ result' = {}
    /\ UNCHANGED now

\* ----------------------------------------------------------------------
\* Statistics
\* ----------------------------------------------------------------------

\* Clock ticks in a day: a DATE compared with NOW() is that day's midnight.
TicksPerDay == 2

\* The days since the day the clock starts, 2025-01-01.
DayNumber(d) ==
    CASE d = "2024-12-31" -> -1
      [] d = "2025-01-01" -> 0
      [] d = "2025-01-02" -> 1

DateToTimestamp(d) == DayNumber(d) * TicksPerDay

Bit(b) == IF b THEN 1 ELSE 0

RECURSIVE CountTasks(_, _, _)
\* One scan of the rows, each COUNT(*) FILTER (WHERE ...) a counter.
CountTasks(rows, t, acc) ==
    IF rows = {} THEN acc
    ELSE LET r == CHOOSE x \in rows : TRUE
         IN  CountTasks(rows \ {r}, t,
                 [total_tasks |-> acc.total_tasks + 1,
                  pending_tasks |-> acc.pending_tasks + Bit(r.status = "pending"),
                  in_progress_tasks |-> acc.in_progress_tasks + Bit(r.status = "in_progress"),
                  completed_tasks |-> acc.completed_tasks + Bit(r.status = "completed"),
                  overdue_tasks |-> acc.overdue_tasks +
                      Bit(/\ r.status # NULL /\ r.status # "completed"
                          /\ r.due_date # NULL /\ DateToTimestamp(r.due_date) < t)])

ZeroTaskStatistics ==
    [total_tasks |-> 0, pending_tasks |-> 0, in_progress_tasks |-> 0,
     completed_tasks |-> 0, overdue_tasks |-> 0]

\* get_task_statistics(user_id): ... FROM tasks WHERE tasks.user_id = user_id
get_task_statistics(rows, user_id, t) ==
    CountTasks({r \in rows : r.user_id = user_id}, t, ZeroTaskStatistics)

\* rpc('get_task_statistics', {user_id}); SECURITY DEFINER, no row level security.
GetTaskStatistics(by, user_id) ==
    /\ by \in Callers
    /\ IF ~CanExecute("get_task_statistics", by)
         THEN /\ result' = {}
              /\ last' = Op("get_task_statistics", by, user_id, FALSE, "denied", 0)
         ELSE /\ result' = get_task_statistics(tasks, user_id, now)
              /\ last' = Op("get_task_statistics", by, user_id, TRUE, "", 1)
    /\ UNCHANGED <<identities, profiles, categories, tasks, now, provisioned, repaired>>

\* The default collation on the names in use.
NameOrder == <<"Finance", "Health", "Learning", "Misc", "Personal", "Work">>

NameRank(name) == CHOOSE i \in DOMAIN NameOrder : NameOrder[i] = name

\* categories c LEFT JOIN tasks t ON c.id = t.category_id WHERE c.user_id =
\* user_id GROUP BY c.id, c.name: one row per category; COUNT(t.id) counts the
\* tasks that reference it.
CategoryStatisticsRows(cats, rows, user_id) ==
    {[category_id |-> c.id, category_name |-> c.name,
      task_count |-> Cardinality({t \in rows : t.category_id = c.id}),
      completed_count |->
          Cardinality({t \in rows : t.category_id = c.id /\ t.status = "completed"}),
      pending_count |->
          Cardinality({t \in rows : t.category_id = c.id /\ t.status = "pending"})]
        : c \in {x \in cats : x.user_id = user_id}}

\* ORDER BY c.name: every order of the rows that ascends by name.
OrderByName(rows) ==
    {s \in [1..Cardinality(rows) -> rows] :
        /\ \A i, j \in DOMAIN s : i # j => s[i] # s[j]
        /\ \A i, j \in DOMAIN s :
              i < j => NameRank(s[i].category_name) <= NameRank(s[j].category_name)}

\* get_category_statistics(user_id)
get_category_statistics(cats, rows, user_id) ==
    OrderByName(CategoryStatisticsRows(cats, rows, user_id))

\* rpc('get_category_statistics', {user_id}); SECURITY DEFINER.
GetCategoryStatistics(by, user_id) ==
    /\ by \in Callers
    /\ IF ~CanExecute("get_category_statistics", by)
         THEN /\ result' = <<>>
              /\ last' = Op("get_category_statistics", by, user_id, FALSE, "denied", 0)
         ELSE \E s \in get_category_statistics(categories, tasks, user_id) :
              /\ result' = s
              /\ last' = Op("get_category_statistics", by, user_id, TRUE, "", Len(s))
    /\ UNCHANGED <<identities, profiles, categories, tasks, now, provisioned, repaired>>

\* ----------------------------------------------------------------------
\* The browser: the task store
\* ----------------------------------------------------------------------

\* The day a clock value falls in.
Today(t) == t \div TicksPerDay

InitialTaskStore ==
    [tasks |-> <<>>, categories |-> <<>>, loading |-> FALSE, error |-> NULL]

\* Every order of a set of rows.
Orders(rows) ==
    {s \in [1..Cardinality(rows) -> rows] : \A i, j \in DOMAIN s : i # j => s[i] # s[j]}

\* select('*, category:categories(*)'): the task with the category it
\* references, as far as the caller may see that category.
WithCategory(by, t) ==
    [id |-> t.id, user_id |-> t.user_id, category_id |-> t.category_id,
     status |-> t.status, priority |-> t.priority, due_date |-> t.due_date,
     updated_at |-> t.updated_at,
     category |-> IF \E c \in categories : c.id = t.category_id /\ owner_policy(by, c)
                    THEN CHOOSE c \in categories : c.id = t.category_id
                    ELSE NULL]

\* fetchTasks(): the rows of the signed-in user replace the store's tasks.  The
\* rows come ordered by created_at, which no two statements here tell apart.
FetchTasks(by) ==
    /\ by \in Callers \ {ServiceRole}
    /\ IF auth_uid(by) = NULL
         THEN /\ taskStore' = [taskStore EXCEPT !.loading = FALSE,
                                                !.error = "No authenticated user"]
              /\ last' = Op("fetchTasks", by, NULL, FALSE, "no_user", 0)
         ELSE \E s \in Orders({WithCategory(by, t) :
                                  t \in {x \in tasks : owner_policy(by, x) /\ x.user_id = by}}) :
              /\ taskStore' = [taskStore EXCEPT !.tasks = s, !.loading = FALSE,
                                                !.error = NULL]
              /\ last' = Op("fetchTasks", by, NULL, TRUE, "", Len(s))
    /\ result' = {}
    /\ UNCHANGED <<identities, profiles, categories, tasks, now, provisioned, repaired,
                   authStore, timers, calls, detectedAt, page>>

\* tasks.filter(p).length, keep[i] being p(tasks[i])
FilterLength(s, keep) == Cardinality({i \in DOMAIN s : keep[i]})

\* Math.round((completed / total) * 100)
CompletionRate(completed, total) ==
    IF total > 0 THEN (200 * completed + total) \div (2 * total) ELSE 0

\* getTaskStats(): new Date(due_date) is the midnight that starts the day.
getTaskStats(s, t) ==
    LET completed == FilterLength(s, [i \in DOMAIN s |-> s[i].status = "completed"])
    IN  [total |-> Len(s),
         pending |-> FilterLength(s, [i \in DOMAIN s |-> s[i].status = "pending"]),
         inProgress |-> FilterLength(s, [i \in DOMAIN s |-> s[i].status = "in_progress"]),
         completed |-> completed,
         overdue |-> FilterLength(s, [i \in DOMAIN s |->
                                          /\ s[i].due_date # NULL
                                          /\ DateToTimestamp(s[i].due_date) < t
                                          /\ s[i].status # "completed"]),
         completionRate |-> CompletionRate(completed, Len(s))]

\* The dashboard reads getTaskStats().
GetTaskStats ==
    /\ result' = getTaskStats(taskStore.tasks, now)
    /\ last' = Op("getTaskStats", Anon, NULL, TRUE, "", 1)
    /\ UNCHANGED <<identities, profiles, categories, tasks, now, provisioned, repaired>>
    /\ UNCHANGED client

\* ----------------------------------------------------------------------
\* The browser: the task store's asynchronous operations
\* ----------------------------------------------------------------------

TaskOps == {"fetchTasks", "createTask", "updateTask", "deleteTask"}

\* One call of a store operation.  pc is "idle", "sent" (the synchronous part
\* has run, the request is on its way) or "answered" (the answer is there, the
\* continuation has not run).  data and error are the answer, sent the number
\* of requests made to the storage layer, outcome how the promise settled,
\* failed whether a call of this slot has failed before; inBulk marks a call
\* whose promise a Promise.all of the tasks page holds, before the status its
\* task had in the storage layer when the call began.
NoRequest ==
    [op |-> "none", pc |-> "idle", id |-> NULL, arg |-> NULL, data |-> <<>>,
     error |-> NULL, sent |-> 0, outcome |-> "none", failed |-> FALSE, inBulk |-> FALSE,
     before |-> NULL]

\* The bulk operation of the tasks page: whether its Promise.all is pending,
\* and the calls it was made of.
NoBulk == [active |-> FALSE, members |-> {}]

\* The synchronous part of an operation: the task operations begin with
\* set({ loading: true, error: null }), the category operations set nothing.
StartRequest(r, op, id, arg) ==
    /\ requests[r].pc = "idle"
    /\ ~requests[r].inBulk
    /\ taskStore' = IF op \in TaskOps
                      THEN [taskStore EXCEPT !.loading = TRUE, !.error = NULL]
                      ELSE taskStore
    /\ requests' = [requests EXCEPT ![r] =
                       [NoRequest EXCEPT !.op = op, !.pc = "sent", !.id = id, !.arg = arg,
                                         !.outcome = "pending",
                                         !.failed = requests[r].failed]]
    /\ last' = Op(op, authSession, id, TRUE, "started", 0)
    /\ result' = {}
    /\ UNCHANGED <<identities, profiles, categories, tasks, now, provisioned, repaired,
                   authStore, timers, calls, detectedAt, authSession, selectedTasks, bulk,
                   loads, lastEvent>>

\* The answer a request gets: the data and the error, and whether a request
\* reached the storage layer.
Answered(q, data, error, n) ==
    [q EXCEPT !.pc = "answered", !.data = data, !.error = error, !.sent = q.sent + n]

\* The task with id in a table.
TaskRow(rows, id) == CHOOSE t \in rows : t.id = id

\* The request of a call reaches the storage layer, under the session the
\* browser holds then, and is answered.  fetchTasks and createTask ask
\* supabase.auth.getUser() first and stop without a user.  requestFails is a
\* request that gets an error before the storage layer runs it.
Storage(r, requestFails) ==
    /\ requests[r].pc = "sent"
    /\ LET q == requests[r]
           me == authSession
       IN  IF q.op \in {"fetchTasks", "createTask", "fetchCategories"} /\ auth_uid(me) = NULL
             THEN /\ requests' = [requests EXCEPT ![r] = Answered(q, <<>>, "no_user", 0)]
                  /\ last' = Op(q.op, me, q.id, FALSE, "no_user", 0)
                  /\ result' = {}
                  /\ UNCHANGED <<identities, profiles, categories, tasks, now, provisioned,
                                 repaired>>
           ELSE IF requestFails
             THEN /\ requests' = [requests EXCEPT ![r] = Answered(q, <<>>, "request_failed", 1)]
                  /\ last' = Op(q.op, me, q.id, FALSE, "request_failed", 0)
                  /\ result' = {}
                  /\ UNCHANGED <<identities, profiles, categories, tasks, now, provisioned,
                                 repaired>>
           ELSE CASE q.op = "fetchTasks" ->
                     /\ \E rows \in Orders({WithCategory(me, t) :
                               t \in {x \in tasks : owner_policy(me, x) /\ x.user_id = me}}) :
                           requests' = [requests EXCEPT ![r] = Answered(q, rows, NULL, 1)]
                     /\ last' = Op("task_select", me, NULL, TRUE, "", 0)
                     /\ result' = {}
                     /\ UNCHANGED <<identities, profiles, categories, tasks, now,
                                    provisioned, repaired>>
                [] q.op = "createTask" ->
                     /\ TaskInsert(me, q.id, me, q.arg.category_id, q.arg.status, NULL)
                     /\ requests' = [requests EXCEPT ![r] =
                           IF last'.ok
                             THEN Answered(q, <<WithCategory(me, TaskRow(tasks', q.id))>>,
                                           NULL, 1)
                             ELSE Answered(q, <<>>, last'.note, 1)]
                [] q.op = "updateTask" ->
                     /\ TaskUpdate(me, q.id, "status", q.arg)
                     /\ requests' = [requests EXCEPT ![r] =
                           IF last'.ok /\ last'.n = 1
                             THEN Answered(q, <<WithCategory(me, TaskRow(tasks', q.id))>>,
                                           NULL, 1)
                           ELSE IF last'.ok
                             THEN Answered(q, <<>>, "PGRST116", 1)
                             ELSE Answered(q, <<>>, last'.note, 1)]
                [] q.op = "deleteTask" ->
                     /\ TaskDelete(me, q.id)
                     /\ requests' = [requests EXCEPT ![r] =
                           Answered(q, <<>>, IF last'.ok THEN NULL ELSE last'.note, 1)]
                [] q.op = "fetchCategories" ->
                     /\ \E rows \in Orders({c \in categories :
                                               owner_policy(me, c) /\ c.user_id = me}) :
                           /\ \A i, j \in DOMAIN rows :
                                 i < j => NameRank(rows[i].name) <= NameRank(rows[j].name)
                           /\ requests' = [requests EXCEPT ![r] = Answered(q, rows, NULL, 1)]
                     /\ last' = Op("category_select", me, NULL, TRUE, "", 0)
                     /\ result' = {}
                     /\ UNCHANGED <<identities, profiles, categories, tasks, now,
                                    provisioned, repaired>>
                [] q.op = "deleteCategory" ->
                     /\ CategoryDelete(me, q.id)
                     /\ requests' = [requests EXCEPT ![r] =
                           Answered(q, <<>>, IF last'.ok THEN NULL ELSE last'.note, 1)]
    /\ UNCHANGED <<taskStore, authStore, timers, calls, detectedAt, authSession, selectedTasks,
                   bulk, loads, lastEvent>>

\* tasks.map(t => t.id === id ? task : t)
MapTask(s, id, task) == [i \in DOMAIN s |-> IF s[i].id = id THEN task ELSE s[i]]

\* rows.filter(x => x.id !== id)
RECURSIVE FilterOut(_, _)
FilterOut(s, id) ==
    IF s = <<>> THEN <<>>
    ELSE IF Head(s).id = id THEN FilterOut(Tail(s), id)
    ELSE <<Head(s)>> \o FilterOut(Tail(s), id)

\* What the continuation of a call sets in the store.
ApplyAnswer(store, q) ==
    IF q.error # NULL
        THEN IF q.op \in TaskOps
               THEN [store EXCEPT !.error = q.error, !.loading = FALSE]
               ELSE [store EXCEPT !.error = q.error]
    ELSE CASE q.op = "fetchTasks" -> [store EXCEPT !.tasks = q.data, !.loading = FALSE]
           [] q.op = "createTask" ->
                [store EXCEPT !.tasks = q.data \o store.tasks, !.loading = FALSE]
           [] q.op = "updateTask" ->
                [store EXCEPT !.tasks = MapTask(store.tasks, q.id, q.data[1]),
                              !.loading = FALSE]
           [] q.op = "deleteTask" ->
                [store EXCEPT !.tasks = FilterOut(store.tasks, q.id), !.loading = FALSE]
           [] q.op = "fetchCategories" -> [store EXCEPT !.categories = q.data]
           [] q.op = "deleteCategory" ->
                [store EXCEPT !.categories = FilterOut(store.categories, q.id)]

\* How the promise of a call settles: the catch of fetchTasks and of
\* fetchCategories ends without a throw, the others throw the error on.
Settles(q) ==
    IF q.error # NULL /\ q.op \notin {"fetchTasks", "fetchCategories"}
        THEN "rejected" ELSE "resolved"

\* The continuation of a call runs.
Respond(r) ==
    /\ requests[r].pc = "answered"
    /\ LET q == requests[r]
       IN  /\ taskStore' = ApplyAnswer(taskStore, q)
           /\ requests' = [requests EXCEPT ![r].pc = "idle", ![r].outcome = Settles(q),
                                           ![r].data = <<>>,
                                           ![r].failed = q.failed \/ q.error # NULL]
           /\ last' = Op(q.op, authSession, q.id, q.error = NULL, "settled", 0)
    /\ result' = {}
    /\ UNCHANGED <<identities, profiles, categories, tasks, now, provisioned, repaired,
                   authStore, timers, calls, detectedAt, authSession, selectedTasks, bulk,
                   loads, lastEvent>>

\* ----------------------------------------------------------------------
\* The browser: the tasks page
\* ----------------------------------------------------------------------

\* The ids of the rows in a list of the store.
ListIds(s) == {s[i].id : i \in DOMAIN s}

\* handleTaskSelect / handleSelectAll: some of the listed tasks are selected.
SelectTasks(ids) ==
    /\ ~bulk.active
    /\ ids # {}
    /\ ids \subseteq ListIds(taskStore.tasks)
    /\ selectedTasks' = ids
    /\ last' = Op("select", authSession, NULL, TRUE, "", Cardinality(ids))
    /\ result' = {}
    /\ UNCHANGED <<identities, profiles, categories, tasks, now, provisioned, repaired,
                   taskStore, authStore, timers, calls, detectedAt, authSession, requests,
                   bulk, loads, lastEvent>>

\* A bulk handler with the clearing in a finally block.
AfterBulk_finally(outcomes) == "cleared"

\* handleBulkStatusUpdate after Promise.all: setSelectedTasks([]) when every
\* promise resolved, the catch (which logs) as soon as one rejected.
AfterBulk(outcomes) == IF "rejected" \in outcomes THEN "kept" ELSE "cleared"

\* handleBulkStatusUpdate(status): selectedTasks.map(taskId => updateTask(
\* taskId, { status })) runs the synchronous part of every call, one call for
\* each selected task.
BulkStatusUpdate(status) ==
    /\ ~bulk.active
    /\ selectedTasks # {}
    /\ selectedTasks \subseteq ListIds(taskStore.tasks)
    /\ \A r \in ReqIds : requests[r].pc = "idle"
    /\ \E slot \in [selectedTasks -> ReqIds] :
          /\ \A a, b \in selectedTasks : a # b => slot[a] # slot[b]
          /\ requests' = [r \in ReqIds |->
                IF \E id \in selectedTasks : slot[id] = r
                  THEN LET id == CHOOSE x \in selectedTasks : slot[x] = r
                       IN  [NoRequest EXCEPT !.op = "updateTask", !.pc = "sent", !.id = id,
                                             !.arg = status, !.outcome = "pending",
                                             !.failed = requests[r].failed,
                                             !.inBulk = TRUE,
                                             !.before = IF id \in Ids(tasks)
                                                          THEN TaskRow(tasks, id).status
                                                          ELSE NULL]
                  ELSE requests[r]]
          /\ bulk' = [active |-> TRUE, members |-> {slot[id] : id \in selectedTasks}]
    /\ taskStore' = [taskStore EXCEPT !.loading = TRUE, !.error = NULL]
    /\ last' = Op("bulk", authSession, NULL, TRUE, "started", Cardinality(selectedTasks))
    /\ result' = {}
    /\ UNCHANGED <<identities, profiles, categories, tasks, now, provisioned, repaired,
                   authStore, timers, calls, detectedAt, authSession, selectedTasks, loads,
                   lastEvent>>

\* Promise.all settles: resolved when every call has resolved, rejected as
\* soon as one has rejected, the other calls going on.
BulkSettle ==
    /\ bulk.active
    /\ LET outcomes == {requests[r].outcome : r \in bulk.members}
       IN  /\ "rejected" \in outcomes \/ outcomes = {"resolved"}
           /\ selectedTasks' = IF AfterBulk(outcomes) = "cleared" THEN {} ELSE selectedTasks
           /\ last' = Op("bulk", authSession, NULL, "rejected" \notin outcomes, "settled", 0)
    /\ bulk' = [bulk EXCEPT !.active = FALSE]
    /\ requests' = [r \in ReqIds |-> [requests[r] EXCEPT !.inBulk = FALSE]]
    /\ result' = {}
    /\ UNCHANGED <<identities, profiles, categories, tasks, now, provisioned, repaired,
                   taskStore, authStore, timers, calls, detectedAt, authSession, loads,
                   lastEvent>>

\* ----------------------------------------------------------------------
\* The browser: the session and the auth store's user
\* ----------------------------------------------------------------------

\* The store's user is kept as the id of the identity, null for none; the
\* profile that loadUserProfile attaches is left out.

\* initialize(): getSession(); with a session the profile load begins, without
\* one the user is null and onAuthStateChange registers the listener.
Initialize ==
    /\ lastEvent = "off"
    /\ ~authStore.initialized
    /\ \A l \in loads : l.from # "initialize"
    /\ IF authSession # Anon
         THEN /\ loads' = loads \cup {[user |-> authSession, from |-> "initialize"]}
              /\ UNCHANGED <<authStore, lastEvent>>
         ELSE /\ authStore' = [authStore EXCEPT !.user = NULL, !.loading = FALSE,
                                                !.initialized = TRUE]
              /\ lastEvent' = "none"
              /\ UNCHANGED loads
    /\ last' = Op("initialize", authSession, NULL, TRUE, "", 0)
    /\ result' = {}
    /\ UNCHANGED <<identities, profiles, categories, tasks, now, provisioned, repaired,
                   taskStore, timers, calls, detectedAt, authSession, requests,
                   selectedTasks, bulk>>

\* The Identity Provider opens a session for u; the listener, when there is
\* one, gets the event and begins loadUserProfile(session.user).
SignedIn(u) ==
    /\ u \in Ids(identities)
    /\ authSession # u
    /\ authSession' = u
    /\ IF lastEvent # "off"
         THEN /\ lastEvent' = "SIGNED_IN"
              /\ loads' = loads \cup {[user |-> u, from |-> "listener"]}
         ELSE UNCHANGED <<lastEvent, loads>>
    /\ last' = Op("SIGNED_IN", u, u, TRUE, "", 0)
    /\ result' = {}
    /\ UNCHANGED <<identities, profiles, categories, tasks, now, provisioned, repaired,
                   taskStore, authStore, timers, calls, detectedAt, requests, selectedTasks,
                   bulk>>

\* The session ends; the listener, when there is one, gets the event without
\* a session: set({ user: null, loading: false }).
SignedOut ==
    /\ authSession # Anon
    /\ authSession' = Anon
    /\ IF lastEvent # "off"
         THEN /\ lastEvent' = "SIGNED_OUT"
              /\ authStore' = [authStore EXCEPT !.user = NULL, !.loading = FALSE]
         ELSE UNCHANGED <<lastEvent, authStore>>
    /\ last' = Op("SIGNED_OUT", authSession, NULL, TRUE, "", 0)
    /\ result' = {}
    /\ UNCHANGED <<identities, profiles, categories, tasks, now, provisioned, repaired,
                   taskStore, timers, calls, detectedAt, requests, selectedTasks, bulk,
                   loads>>

\* loadUserProfile(user) returns (with the profile, or with the user alone
\* after an error) and its caller sets the user: the listener, initialize,
\* which then registers the listener, or updateProfile.
LoadDone(l) ==
    /\ l \in loads
    /\ loads' = loads \ {l}
    /\ ProfileSelect(authSession, l.user)
    /\ authStore' = IF l.from = "initialize"
                      THEN [authStore EXCEPT !.user = l.user, !.loading = FALSE,
                                             !.initialized = TRUE]
                      ELSE [authStore EXCEPT !.user = l.user, !.loading = FALSE]
    /\ lastEvent' = IF l.from = "initialize" THEN "none" ELSE lastEvent
    /\ UNCHANGED <<taskStore, timers, calls, detectedAt, authSession, requests,
                   selectedTasks, bulk>>

\* updateProfile(profileData): the update of the user's own row, then
\* loadUserProfile(user) with the user read at the start.
UpdateProfile(patch) ==
    /\ authStore.user # NULL
    /\ \A l \in loads : l.from # "updateProfile"
    /\ ProfileUpdate(authSession, authStore.user, patch)
    /\ authStore' = [authStore EXCEPT !.loading = TRUE, !.error = NULL]
    /\ loads' = loads \cup {[user |-> authStore.user, from |-> "updateProfile"]}
    /\ UNCHANGED <<taskStore, timers, calls, detectedAt, authSession, requests,
                   selectedTasks, bulk, lastEvent>>

\* The pages' effect: if (user) { fetchTasks(); fetchCategories(); }
FetchOnUser(r, op) ==
    /\ authStore.user # NULL
    /\ op \in {"fetchTasks", "fetchCategories"}
    /\ StartRequest(r, op, NULL, NULL)

\* ----------------------------------------------------------------------
\* The browser: the auth store
\* ----------------------------------------------------------------------

InitialAuthStore ==
    [user |-> NULL, loading |-> TRUE, error |-> NULL, initialized |-> FALSE,
     isRateLimited |-> FALSE, rateLimitCooldown |-> 0, lastAttemptTime |-> 0]

\* The signIn and signUp calls that can be in progress at once.
CallIds == {"k1", "k2"}

\* A call that has not been made.  pc is where the call stands: "idle" (not
\* running), "requesting" (waiting for the Identity Provider), "settling" (in
\* the delay after signUp returned), "rpc" (about to call ensure_user_profile).
\* at is when the Identity Provider answered, user and session what it
\* answered; found is what the profile query returned, existed whether the
\* profile was there when it ran, rpcs the calls of ensure_user_profile made;
\* outcome is how the promise settled ("resolved", "rejected"), "pending"
\* before.
NoCall == [op |-> "none", pc |-> "idle", at |-> 0, user |-> NULL, session |-> NULL,
           found |-> FALSE, existed |-> FALSE, rpcs |-> 0, outcome |-> "none"]

\* setRateLimit(5), in seconds.
RateLimitCooldown == 5

\* setTimeout(resolve, 1000) after signUp returned, in seconds.
SettlingDelay == 1

\* In the specifications of the auth store a step of the clock is a second,
\* and the clock runs from 0 to MaxSeconds.
MaxSeconds == 6

Second ==
    /\ now < MaxSeconds
    /\ now' = now + 1
    /\ last' = Op("second", Anon, NULL, TRUE, "", 0)
    /\ result' = {}
    /\ UNCHANGED <<identities, profiles, categories, tasks, provisioned, repaired>>
    /\ UNCHANGED client

\* What signUp sends.
SignUpEmail == "a@x.com"
SignUpName == "Alice"

\* Error messages of the Identity Provider, as sequences of words.
AuthErrorMessages ==
    {<<"For", "security", "purposes", "wait">>, <<"429", "Too", "Many", "Requests">>,
     <<"Invalid", "login", "credentials">>}

\* error.message.includes('429') || includes('Too Many Requests') ||
\* includes('security purposes') || includes('after 4 seconds')
IsRateLimitMessage(message) ==
    \/ Like(message, <<"429">>)
    \/ Like(message, <<"Too", "Many", "Requests">>)
    \/ Like(message, <<"security", "purposes">>)
    \/ Like(message, <<"after", "4", "seconds">>)

\* checkRateLimit(): whether the cooldown is on, and the store it leaves.
checkRateLimit(store, t) ==
    IF ~store.isRateLimited
        THEN [limited |-> FALSE, store |-> store]
    ELSE IF t - store.lastAttemptTime >= store.rateLimitCooldown
        THEN [limited |-> FALSE,
              store |-> [store EXCEPT !.isRateLimited = FALSE, !.rateLimitCooldown = 0]]
        ELSE [limited |-> TRUE, store |-> store]

\* setRateLimit(cooldownSeconds): the store it leaves; its setTimeout is in
\* RateLimitDetected.
setRateLimit(store, cooldownSeconds, t) ==
    [store EXCEPT !.isRateLimited = TRUE, !.rateLimitCooldown = cooldownSeconds,
                  !.lastAttemptTime = t, !.error = "Too many requests"]

\* signIn(...) or signUp(...) is called: the cooldown check, then the request
\* to the Identity Provider leaves.
AuthCall(k, op) ==
    /\ calls[k].pc = "idle"
    /\ LET r == checkRateLimit(authStore, now)
       IN  IF r.limited
             THEN /\ authStore' = r.store
                  /\ calls' = [calls EXCEPT ![k] = [NoCall EXCEPT !.op = op,
                                                                 !.outcome = "rejected"]]
                  /\ last' = Op(op, k, NULL, FALSE, "rejected", 0)
             ELSE /\ authStore' = [r.store EXCEPT !.loading = TRUE, !.error = NULL]
                  /\ calls' = [calls EXCEPT ![k] = [NoCall EXCEPT !.op = op,
                                                                 !.pc = "requesting",
                                                                 !.outcome = "pending"]]
                  /\ last' = Op(op, k, NULL, TRUE, "sent", 0)
    /\ result' = {}
    /\ UNCHANGED <<identities, profiles, categories, tasks, now, provisioned, repaired,
                   taskStore, timers, detectedAt, page>>

\* The Identity Provider answers signIn or signUp with an error.
AuthError(k, message) ==
    /\ calls[k].pc = "requesting"
    /\ IF IsRateLimitMessage(message)
         THEN /\ authStore' = [setRateLimit(authStore, RateLimitCooldown, now)
                                 EXCEPT !.loading = FALSE, !.error = "Too many attempts"]
              /\ timers' = Append(timers, now + RateLimitCooldown)
              /\ detectedAt' = {now}
              /\ last' = Op(calls[k].op, k, NULL, FALSE, "rate_limit", 0)
         ELSE /\ authStore' = [authStore EXCEPT !.loading = FALSE, !.error = "provider_error"]
              /\ UNCHANGED <<timers, detectedAt>>
              /\ last' = Op(calls[k].op, k, NULL, FALSE, "error", 0)
    /\ calls' = [calls EXCEPT ![k].pc = "idle", ![k].outcome = "rejected"]
    /\ result' = {}
    /\ UNCHANGED <<identities, profiles, categories, tasks, now, provisioned, repaired,
                   taskStore, page>>

\* The Identity Provider answers signIn with a session.
SignInOk(k) ==
    /\ calls[k].pc = "requesting" /\ calls[k].op = "signIn"
    /\ authStore' = [authStore EXCEPT !.loading = FALSE]
    /\ calls' = [calls EXCEPT ![k].pc = "idle", ![k].outcome = "resolved"]
    /\ last' = Op("signIn", k, NULL, TRUE, "signed_in", 0)
    /\ result' = {}
    /\ UNCHANGED <<identities, profiles, categories, tasks, now, provisioned, repaired,
                   taskStore, timers, detectedAt, page>>

\* The callback of setRateLimit's setTimeout, when its time has come.
AutoClear(i) ==
    /\ i \in DOMAIN timers
    /\ timers[i] <= now
    /\ authStore' = IF authStore.isRateLimited
                      THEN [authStore EXCEPT !.isRateLimited = FALSE,
                                             !.rateLimitCooldown = 0, !.error = NULL]
                      ELSE authStore
    /\ timers' = SubSeq(timers, 1, i - 1) \o SubSeq(timers, i + 1, Len(timers))
    /\ last' = Op("auto_clear", Anon, NULL, TRUE, "", 0)
    /\ result' = {}
    /\ UNCHANGED <<identities, profiles, categories, tasks, now, provisioned, repaired,
                   taskStore, calls, detectedAt, page>>

\* The Identity Provider answers signUp with the new identity: the row in
\* auth.users and its trigger have run.  The answer carries a session, or none
\* when the email has to be confirmed first.
SignUpOk(k, u, session, insertFails) ==
    /\ calls[k].pc = "requesting" /\ calls[k].op = "signUp"
    /\ session \in {u, Anon}
    /\ CreateIdentity(u, SignUpEmail, SignUpName, insertFails)
    /\ calls' = [calls EXCEPT ![k].pc = "settling", ![k].at = now, ![k].user = u,
                              ![k].session = session]
    /\ UNCHANGED <<taskStore, authStore, timers, detectedAt, page>>

\* A signUp that calls the repair whatever the query returned.
AfterQuery_always(found) == "rpc"

\* Where signUp goes after the profile query.
AfterQuery(found) == IF found THEN "idle" ELSE "rpc"

\* A fallback whose catch throws the error on.
AfterFallback_rethrow(failed) == IF failed THEN "rejected" ELSE "resolved"

\* How signUp settles after the fallback: catch (profileError) logs and goes
\* on ("Don't fail the signup if profile creation fails"); an error that the
\* rpc returns is logged.
AfterFallback(failed) == "resolved"

\* The end of signUp: set({ loading: false }) after the fallback, or the outer
\* catch.
SettleSignUp(store, outcome) ==
    IF outcome = "rejected"
        THEN [store EXCEPT !.error = "Sign up failed", !.loading = FALSE]
        ELSE [store EXCEPT !.loading = FALSE]

\* What a request of the fallback can come to: an answer of the database, or,
\* the request not having reached it, an error returned by the API or an
\* exception of the call.
FallbackAnswers == {"answer", "error", "throws"}

\* signUp, the delay over: from('profiles').select('id').eq('id', user.id)
\* .single(); the error of the query is not looked at, an exception ends the
\* fallback.
SignUpQuery(k, answer) ==
    /\ calls[k].pc = "settling"
    /\ now >= calls[k].at + SettlingDelay
    /\ IF answer = "answer"
         THEN ProfileSelect(calls[k].session, calls[k].user)
         ELSE /\ result' = {}
              /\ last' = Op("request_failed", calls[k].session, calls[k].user, FALSE,
                            answer, 0)
              /\ UNCHANGED <<identities, profiles, categories, tasks, now, provisioned,
                             repaired>>
    /\ LET found == result' # {}
           pc == IF answer = "throws" THEN "idle" ELSE AfterQuery(found)
           outcome == IF pc = "idle" THEN AfterFallback(answer = "throws") ELSE "pending"
       IN  /\ calls' = [calls EXCEPT ![k].found = found,
                                     ![k].existed = calls[k].user \in Ids(profiles),
                                     ![k].pc = pc,
                                     ![k].outcome = outcome]
           /\ authStore' = IF pc = "idle" THEN SettleSignUp(authStore, outcome)
                                          ELSE authStore
    /\ UNCHANGED <<taskStore, timers, detectedAt, page>>

\* signUp, no profile seen: rpc('ensure_user_profile', ...); its error is
\* logged, an exception is caught.
SignUpRepair(k, answer) ==
    /\ calls[k].pc = "rpc"
    /\ IF answer = "answer"
         THEN EnsureUserProfile(calls[k].session, calls[k].user, SignUpEmail, SignUpName)
         ELSE /\ result' = {}
              /\ last' = Op("request_failed", calls[k].session, calls[k].user, FALSE,
                            answer, 0)
              /\ UNCHANGED <<identities, profiles, categories, tasks, now, provisioned,
                             repaired>>
    /\ LET outcome == AfterFallback(answer # "answer" \/ ~last'.ok)
       IN  /\ calls' = [calls EXCEPT ![k].pc = "idle", ![k].rpcs = calls[k].rpcs + 1,
                                     ![k].outcome = outcome]
           /\ authStore' = SettleSignUp(authStore, outcome)
    /\ UNCHANGED <<taskStore, timers, detectedAt, page>>

Init ==
    /\ identities = {}
    /\ profiles = {}
    /\ categories = {}
    /\ tasks = {}
    /\ now = 0
    /\ last = Op("none", Anon, NULL, TRUE, "", 0)
    /\ result = {}
    /\ provisioned = {}
    /\ repaired = {}
    /\ taskStore = InitialTaskStore
    /\ authStore = InitialAuthStore
    /\ timers = <<>>
    /\ calls = [k \in CallIds |-> NoCall]
    /\ detectedAt = {}
    /\ authSession = Anon
    /\ requests = [r \in ReqIds |-> NoRequest]
    /\ selectedTasks = {}
    /\ bulk = NoBulk
    /\ loads = {}
    /\ lastEvent = "off"

\* Identities, their profiles and default categories.
NextProv ==
    \/ /\ \E u \in Users, e \in Emails, n \in FullNames, f \in BOOLEAN :
             CreateIdentity(u, e, n, f)
       /\ UNCHANGED client
    \/ /\ \E by \in Users \cup {Anon, ServiceRole}, u \in Users,
             e \in RepairEmails, n \in RepairNames :
             EnsureUserProfile(by, u, e, n)
       /\ UNCHANGED client
    \/ /\ \E by \in Users \cup {Anon}, u \in Users, p \in ProfilePatches :
             ProfileUpdate(by, u, p)
       /\ UNCHANGED client
    \/ /\ \E by \in Users \cup {Anon}, u \in Users : SeedDefaultCategories(by, u)
       /\ UNCHANGED client

SpecProv == Init /\ [][NextProv]_vars

\* Identities come and go, with the rows that reference them.
NextRemoval ==
    \/ /\ \E u \in Users, f \in BOOLEAN : CreateIdentity(u, "a@x.com", "Alice", f)
       /\ UNCHANGED client
    \/ /\ \E by \in Users \cup {ServiceRole}, u \in Users :
             EnsureUserProfile(by, u, "a@x.com", "Alice")
       /\ UNCHANGED client
    \/ /\ \E by \in Users : CategoryInsert(by, IF by = "u1" THEN "c1" ELSE "c2", "Work", by)
       /\ UNCHANGED client
    \/ /\ \E by \in Users, id \in TaskIds, c \in CategoryIds \cup {NULL} :
             TaskInsert(by, id, by, c, "pending", NULL)
       /\ UNCHANGED client
    \/ /\ \E u \in Users : DeleteIdentity(u)
       /\ UNCHANGED client
    \/ /\ Tick
       /\ UNCHANGED client

SpecRemoval == Init /\ [][NextRemoval]_vars

\* Two signed-in users and anon on two tasks and one category.
NextRls ==
    \/ /\ \E u \in Users : CreateIdentity(u, "a@x.com", "Alice", FALSE)
       /\ UNCHANGED client
    \/ /\ \E by \in Users \cup {Anon}, id \in TaskIds, o \in Users, c \in {NULL, "c1"} :
             TaskInsert(by, id, o, c, "pending", NULL)
       /\ UNCHANGED client
    \/ /\ \E by \in Users \cup {Anon}, id \in TaskIds :
             \/ TaskUpdate(by, id, "status", "completed")
             \/ \E o \in Users : TaskUpdate(by, id, "user_id", o)
       /\ UNCHANGED client
    \/ /\ \E by \in Users \cup {Anon}, id \in TaskIds : TaskDelete(by, id)
       /\ UNCHANGED client
    \/ /\ \E by \in Users \cup {Anon} : TaskSelect(by)
       /\ UNCHANGED client
    \/ /\ \E by \in Users \cup {Anon}, o \in Users : CategoryInsert(by, "c1", "Work", o)
       /\ UNCHANGED client
    \/ /\ \E by \in Users \cup {Anon} : CategoryUpdate(by, "c1", "Misc")
       /\ UNCHANGED client
    \/ /\ \E by \in Users \cup {Anon} : CategoryDelete(by, "c1")
       /\ UNCHANGED client
    \/ /\ \E by \in Users \cup {Anon} : CategorySelect(by)
       /\ UNCHANGED client

SpecRls == Init /\ [][NextRls]_vars

\* One user's categories and tasks over time.
NextCascade ==
    \/ /\ CreateIdentity("u1", "a@x.com", "Alice", FALSE)
       /\ UNCHANGED client
    \/ /\ \E id \in TaskIds, c \in CategoryIds \cup {NULL}, s \in {"pending", "completed"} :
             TaskInsert("u1", id, "u1", c, s, NULL)
       /\ UNCHANGED client
    \/ /\ \E id \in TaskIds, c \in CategoryIds : TaskUpdate("u1", id, "category_id", c)
       /\ UNCHANGED client
    \/ /\ \E id \in CategoryIds, n \in CategoryNames : CategoryInsert("u1", id, n, "u1")
       /\ UNCHANGED client
    \/ /\ \E id \in CategoryIds : CategoryDelete("u1", id)
       /\ UNCHANGED client
    \/ /\ GetCategoryStatistics("u1", "u1")
       /\ UNCHANGED client
    \/ /\ Tick
       /\ UNCHANGED client

SpecCascade == Init /\ [][NextCascade]_vars

\* Two users' tasks and their counts.
NextStats ==
    \/ /\ \E u \in Users : CreateIdentity(u, "a@x.com", "Alice", FALSE)
       /\ UNCHANGED client
    \/ /\ \E by \in Users, id \in TaskIds, s \in StatusInputs :
             TaskInsert(by, id, by, NULL, s, NULL)
       /\ UNCHANGED client
    \/ /\ \E by \in Users, id \in TaskIds, s \in StatusInputs :
             TaskUpdate(by, id, "status", s)
       /\ UNCHANGED client
    \/ /\ \E by \in Users, id \in TaskIds : TaskDelete(by, id)
       /\ UNCHANGED client
    \/ /\ \E by \in Users \cup {Anon}, u \in Users : GetTaskStatistics(by, u)
       /\ UNCHANGED client

SpecStats == Init /\ [][NextStats]_vars

\* Due dates around today, the server's and the browser's counts.
NextOverdue ==
    \/ /\ \E u \in Users : CreateIdentity(u, "a@x.com", "Alice", FALSE)
       /\ UNCHANGED client
    \/ /\ \E by \in Users, id \in TaskIds, s \in {"pending", "completed"}, d \in DueInputs :
             TaskInsert(by, id, by, NULL, s, d)
       /\ UNCHANGED client
    \/ /\ \E by \in Users, u \in Users : GetTaskStatistics(by, u)
       /\ UNCHANGED client
    \/ FetchTasks("u1")
    \/ GetTaskStats
    \/ /\ Tick
       /\ UNCHANGED client

SpecOverdue == Init /\ [][NextOverdue]_vars

\* Two users' categories, the tasks that reference them and the counts.
NextCategoryStats ==
    \/ /\ \E u \in Users : CreateIdentity(u, "a@x.com", "Alice", FALSE)
       /\ UNCHANGED client
    \/ /\ \E by \in Users, id \in CategoryIds, n \in CategoryNames :
             CategoryInsert(by, id, n, by)
       /\ UNCHANGED client
    \/ /\ \E by \in Users, id \in TaskIds, c \in CategoryIds \cup {NULL},
             s \in {"pending", "completed"} :
             TaskInsert(by, id, by, c, s, NULL)
       /\ UNCHANGED client
    \/ /\ \E by \in Users, u \in Users : GetCategoryStatistics(by, u)
       /\ UNCHANGED client

SpecCategoryStats == Init /\ [][NextCategoryStats]_vars

\* One user's writes of status and priority.
NextEnums ==
    \/ /\ CreateIdentity("u1", "a@x.com", "Alice", FALSE)
       /\ UNCHANGED client
    \/ /\ \E id \in TaskIds, s \in StatusInputs, p \in PriorityInputs :
             TaskInsertRow("u1", id, [user_id |-> "u1", category_id |-> NULL, status |-> s,
                                      priority |-> p, due_date |-> NULL])
       /\ UNCHANGED client
    \/ /\ \E id \in TaskIds, s \in StatusInputs : TaskUpdate("u1", id, "status", s)
       /\ UNCHANGED client
    \/ /\ \E id \in TaskIds, p \in PriorityInputs : TaskUpdate("u1", id, "priority", p)
       /\ UNCHANGED client
    \/ /\ \E id \in TaskIds : TaskDelete("u1", id)
       /\ UNCHANGED client

SpecEnums == Init /\ [][NextEnums]_vars

\* Statements on profiles, by their owner and by others.
NextProfiles ==
    \/ /\ \E u \in Users, f \in BOOLEAN : CreateIdentity(u, "a@x.com", "Alice", f)
       /\ UNCHANGED client
    \/ /\ \E by \in Users \cup {Anon, ServiceRole}, a \in ApplicationNames, u \in Users :
             ProfileInsert(Session(by, a), u, "Mallory")
       /\ UNCHANGED client
    \/ /\ \E by \in Users, u \in Users : EnsureUserProfile(by, u, "z@x.com", "Mallory")
       /\ UNCHANGED client
    \/ /\ \E by \in Users \cup {Anon}, u \in Users : ProfileSelect(by, u)
       /\ UNCHANGED client
    \/ /\ \E by \in Users \cup {Anon}, u \in Users, p \in ProfilePatches :
             ProfileUpdate(by, u, p)
       /\ UNCHANGED client
    \/ /\ \E by \in Users \cup {Anon}, u \in Users : ProfileDelete(by, u)
       /\ UNCHANGED client

SpecProfiles == Init /\ [][NextProfiles]_vars

\* Sign-in and sign-up calls against an Identity Provider that limits the rate.
NextRateLimit ==
    \/ \E k \in CallIds, op \in {"signIn", "signUp"} : AuthCall(k, op)
    \/ \E k \in CallIds, m \in AuthErrorMessages : AuthError(k, m)
    \/ \E k \in CallIds : SignInOk(k)
    \/ \E i \in 1..Cardinality(CallIds) * 2 : AutoClear(i)
    \/ Second

SpecRateLimit == Init /\ [][NextRateLimit]_vars

\* Sign-ups with their fallback, and repair calls of signed-in users.
NextSignUp ==
    \/ AuthCall("k1", "signUp")
    \/ \E k \in CallIds, u \in Users, session \in Users \cup {Anon}, f \in BOOLEAN :
          SignUpOk(k, u, session, f)
    \/ \E k \in CallIds, a \in FallbackAnswers : SignUpQuery(k, a)
    \/ \E k \in CallIds, a \in FallbackAnswers : SignUpRepair(k, a)
    \/ /\ \E by \in Users, u \in Users : EnsureUserProfile(by, u, "z@x.com", "Mallory")
       /\ UNCHANGED client
    \/ Second

SpecSignUp == Init /\ [][NextSignUp]_vars

\* Sessions that begin and end while profile loads and fetches are in flight.
NextSession ==
    \/ /\ \E u \in Users : CreateIdentity(u, "a@x.com", "Alice", FALSE)
       /\ UNCHANGED client
    \/ /\ \E by \in Users : TaskInsert(by, "t1", by, NULL, "pending", NULL)
       /\ UNCHANGED client
    \/ Initialize
    \/ \E u \in Users : SignedIn(u)
    \/ SignedOut
    \/ \E l \in loads : LoadDone(l)
    \/ \E patch \in ProfilePatches : UpdateProfile(patch)
    \/ FetchOnUser("r1", "fetchTasks")
    \/ \E f \in BOOLEAN : Storage("r1", f)
    \/ Respond("r1")

SpecSession == Init /\ [][NextSession]_vars

\* The ids a new task can get: those no table, list or call knows.
FreshTaskIds ==
    TaskIds \ (Ids(tasks) \cup ListIds(taskStore.tasks)
                 \cup {requests[r].id : r \in ReqIds})

\* One signed-in user's operations on one task, two at a time, every request
\* answered by the storage layer.
NextTaskStore ==
    \/ /\ CreateIdentity("u1", "a@x.com", "Alice", FALSE)
       /\ UNCHANGED client
    \/ SignedIn("u1")
    \/ /\ authSession = "u1"
       /\ \/ \E r \in ReqIds : StartRequest(r, "fetchTasks", NULL, NULL)
          \/ \E r \in ReqIds, id \in FreshTaskIds \cap {"t1"} :
                StartRequest(r, "createTask", id,
                             [category_id |-> NULL, status |-> "pending"])
          \/ \E r \in ReqIds, id \in ListIds(taskStore.tasks),
                st \in {"in_progress", "completed"} :
                StartRequest(r, "updateTask", id, st)
          \/ \E r \in ReqIds, id \in ListIds(taskStore.tasks) :
                StartRequest(r, "deleteTask", id, NULL)
    \/ \E r \in ReqIds : Storage(r, FALSE)
    \/ \E r \in ReqIds : Respond(r)

SpecTaskStore == Init /\ [][NextTaskStore]_vars

\* One user's two tasks, fetched, selected and updated in bulk.
NextBulk ==
    \/ /\ CreateIdentity("u1", "a@x.com", "Alice", FALSE)
       /\ UNCHANGED client
    \/ /\ \E id \in TaskIds : TaskInsert("u1", id, "u1", NULL, "pending", NULL)
       /\ taskStore.tasks = <<>>
       /\ UNCHANGED client
    \/ SignedIn("u1")
    \/ /\ authSession = "u1"
       /\ taskStore.tasks = <<>>
       /\ StartRequest("r1", "fetchTasks", NULL, NULL)
    \/ \E ids \in SUBSET TaskIds : SelectTasks(ids)
    \/ BulkStatusUpdate("completed")
    \/ \E r \in ReqIds, f \in BOOLEAN : Storage(r, f)
    \/ \E r \in ReqIds : Respond(r)
    \/ BulkSettle

SpecBulk == Init /\ [][NextBulk]_vars

\* One user's category and the task that references it, fetched and deleted.
NextCategoryStore ==
    \/ /\ CreateIdentity("u1", "a@x.com", "Alice", FALSE)
       /\ UNCHANGED client
    \/ /\ \E n \in CategoryNames : CategoryInsert("u1", "c1", n, "u1")
       /\ UNCHANGED client
    \/ /\ \E c \in {NULL, "c1"} : TaskInsert("u1", "t1", "u1", c, "pending", NULL)
       /\ UNCHANGED client
    \/ SignedIn("u1")
    \/ \E r \in ReqIds, op \in {"fetchTasks", "fetchCategories"} : FetchOnUser(r, op)
    \/ \E l \in loads : LoadDone(l)
    \/ Initialize
    \/ \E r \in ReqIds, id \in ListIds(taskStore.categories) :
          StartRequest(r, "deleteCategory", id, NULL)
    \/ \E r \in ReqIds, f \in BOOLEAN : Storage(r, f)
    \/ \E r \in ReqIds : Respond(r)

SpecCategoryStore == Init /\ [][NextCategoryStore]_vars

\* ----------------------------------------------------------------------
\* Properties
\* ----------------------------------------------------------------------

ProfilesOf(id) == {p \in profiles : p.id = id}
CategoriesOf(id) == {c \in categories : c.user_id = id}
TasksOf(id) == {t \in tasks : t.user_id = id}

\* C1, as stated: every identity has exactly one profile, whether the trigger's
\* insert succeeded or failed and however many repair calls followed (none
\* included).
C1_ExactlyOneProfileAlways ==
    \A i \in identities : Cardinality(ProfilesOf(i.id)) = 1

\* C1, amended: an identity never has more than one profile, and has exactly
\* one as soon as the trigger's insert succeeded or a repair call with its id
\* returned without error.
C1_OneProfileOnceProvisionedOrRepaired ==
    \A i \in identities :
        /\ Cardinality(ProfilesOf(i.id)) <= 1
        /\ i.id \in provisioned \cup repaired => Cardinality(ProfilesOf(i.id)) = 1

\* C1: the trigger failed, a repair created the profile and a second repair
\* call found it.
C1_Witness ==
    /\ last.op = "ensure_user_profile" /\ last.note = "conflict"
    /\ last.id \in repaired \ provisioned
    /\ last.id \in Ids(identities)
    /\ Cardinality(ProfilesOf(last.id)) = 1

\* C2: an identity creation whose trigger insert fails still succeeds and
\* leaves the identity in place.
C2_ProvisioningNeverBlocksSignup ==
    last.op = "create_identity" => last.ok /\ last.id \in Ids(identities)

\* C2: an identity was created although the trigger's insert failed.
C2_Witness ==
    /\ last.op = "create_identity" /\ last.note = "trigger_failed"
    /\ last.id \in Ids(identities)
    /\ last.id \notin Ids(profiles)

\* C3: after a sign-up whose trigger did not fail the identity has its
\* profile, with the full name of the sign-up, and exactly the five default
\* categories.
C3_SignupGivesProfileAndFiveCategories ==
    last.op = "create_identity" /\ last.note = "profile_created" =>
        /\ \E i \in identities, p \in profiles :
              i.id = last.id /\ p.id = last.id /\ p.full_name = Coalesce(i.full_name)
        /\ Cardinality(CategoriesOf(last.id)) = 5
        /\ {c.name : c \in CategoriesOf(last.id)} = DefaultNames

\* C4: after a signed-in user seeded the default categories for a live
\* identity, once or more, the call returned no error and the identity has
\* exactly five categories with the five default names.
C4_SeedingYieldsFiveDefaults ==
    last.op = "seed_categories" /\ last.by \in Users /\ last.id \in Ids(identities) =>
        /\ last.ok
        /\ Cardinality({c \in CategoriesOf(last.id) : c.name \in DefaultNames}) = 5
        /\ {c.name : c \in CategoriesOf(last.id)} = DefaultNames

\* C6: a repair call by a signed-in user with the id of another identity
\* creates no profile.
C6_RepairOnlyForOwnId ==
    last.op = "ensure_user_profile" /\ last.by \in Users /\ last.by # last.id =>
        last.note # "created"

\* C7: a repair call for an id that has a profile returns without error and
\* leaves every profile as it was, whatever email and name it was given.
C7_RepairOfExistingProfileIsNoOp ==
    [][last'.op = "ensure_user_profile" /\ last'.note # "denied"
          /\ last'.id \in Ids(profiles)
       => last'.ok /\ profiles' = profiles]_vars

\* C7: a repair call found a profile its owner had edited, and left it so.
C7_Witness ==
    /\ last.op = "ensure_user_profile" /\ last.note = "conflict"
    /\ \E p \in profiles :
          p.id = last.id /\ p.full_name = "Al" /\ p.preferences = "{darkMode}"

TaskStatements == {"task_insert", "task_update", "task_delete", "task_select"}
CategoryStatements ==
    {"category_insert", "category_update", "category_delete", "category_select"}

C8_DeleteCategoryLeavesTasksUnchanged ==
    [][last'.op = "category_delete"
          /\ (\E c \in categories : c.id = last'.id /\ c.user_id = last'.by)
       => /\ Ids(tasks') = Ids(tasks)
          /\ \A t \in tasks :
                IF t.category_id = last'.id
                  THEN [t EXCEPT !.category_id = NULL] \in tasks'
                  ELSE t \in tasks'
          /\ \A s \in get_category_statistics(categories', tasks', last'.by) :
                \A i \in DOMAIN s : s[i].category_id # last'.id
      ]_vars

\* C8, amended: deleting a category deletes no task; the tasks that referenced
\* it have category_id NULL and updated_at set to the time of the delete, every
\* other column unchanged, all other tasks are untouched, and the owner's
\* category statistics no longer list it.
C8_DeleteCategoryNullsAndTouchesTasks ==
    [][last'.op = "category_delete"
          /\ (\E c \in categories : c.id = last'.id /\ c.user_id = last'.by)
       => /\ Ids(tasks') = Ids(tasks)
          /\ \A t \in tasks :
                IF t.category_id = last'.id
                  THEN [t EXCEPT !.category_id = NULL, !.updated_at = now] \in tasks'
                  ELSE t \in tasks'
          /\ \A s \in get_category_statistics(categories', tasks', last'.by) :
                \A i \in DOMAIN s : s[i].category_id # last'.id
      ]_vars

\* C8: a category two tasks referenced was deleted after the clock moved; both
\* tasks are there, without a category.
C8_Witness ==
    /\ last.op = "category_delete" /\ last.ok /\ last.n = 2
    /\ last.id \notin Ids(categories)
    /\ Cardinality(tasks) = 2
    /\ \A t \in tasks : t.category_id = NULL /\ t.updated_at = now
    /\ now > 0

\* C9: deleting an identity succeeds and removes its profile, categories and
\* tasks, and every profile, category and task references a live identity.
C9_DeleteIdentityRemovesItsRows ==
    /\ last.op = "delete_identity" =>
          /\ last.ok
          /\ last.id \notin Ids(identities)
          /\ ProfilesOf(last.id) = {} /\ CategoriesOf(last.id) = {} /\ TasksOf(last.id) = {}
    /\ \A p \in profiles : p.id \in Ids(identities)
    /\ \A c \in categories : c.user_id \in Ids(identities)
    /\ \A t \in tasks : t.user_id \in Ids(identities)

\* C10: get_task_statistics(owner) returns the number of the owner's tasks as
\* total, the number of them with each status as pending, in_progress and
\* completed, and total is the sum of the three.
C10_TaskStatisticsCounts ==
    last.op = "get_task_statistics" /\ last.ok =>
        /\ result.total_tasks = Cardinality(TasksOf(last.id))
        /\ result.pending_tasks =
              Cardinality({t \in TasksOf(last.id) : t.status = "pending"})
        /\ result.in_progress_tasks =
              Cardinality({t \in TasksOf(last.id) : t.status = "in_progress"})
        /\ result.completed_tasks =
              Cardinality({t \in TasksOf(last.id) : t.status = "completed"})
        /\ result.total_tasks =
              result.pending_tasks + result.in_progress_tasks + result.completed_tasks

\* A task whose due date is before today and whose status is not completed.
PastDueUncompleted(t) ==
    t.due_date # NULL /\ DayNumber(t.due_date) < Today(now) /\ t.status # "completed"

\* C11: the overdue count of get_task_statistics(owner) is the number of the
\* owner's tasks that are due before today and not completed, and the overdue
\* count of getTaskStats() is the number of such tasks in the store: a task due
\* today or later, without a due date, or completed is not counted.
C11_OverdueCountsPastDueUncompleted ==
    /\ last.op = "get_task_statistics" /\ last.ok =>
          result.overdue_tasks =
              Cardinality({t \in TasksOf(last.id) : PastDueUncompleted(t)})
    /\ last.op = "getTaskStats" =>
          result.overdue =
              Cardinality({i \in DOMAIN taskStore.tasks :
                              PastDueUncompleted(taskStore.tasks[i])})

\* C12: get_category_statistics(owner) returns one entry for each category of
\* the owner, those without tasks included, in ascending order of name, and the
\* three counts of an entry are the numbers of the owner's tasks in that
\* category (all, completed, pending): a task of another owner is not counted.
C12_CategoryStatisticsCountOwnersTasks ==
    last.op = "get_category_statistics" /\ last.ok =>
        /\ Len(result) = Cardinality(CategoriesOf(last.id))
        /\ {result[i].category_id : i \in DOMAIN result} = Ids(CategoriesOf(last.id))
        /\ \A i, j \in DOMAIN result :
              i < j => NameRank(result[i].category_name) <= NameRank(result[j].category_name)
        /\ \A i \in DOMAIN result :
              LET own == {t \in TasksOf(last.id) : t.category_id = result[i].category_id}
              IN  /\ result[i].task_count = Cardinality(own)
                  /\ result[i].completed_count =
                        Cardinality({t \in own : t.status = "completed"})
                  /\ result[i].pending_count =
                        Cardinality({t \in own : t.status = "pending"})

TaskStatuses == {"pending", "in_progress", "completed"}
TaskPriorities == {"low", "medium", "high"}

\* C13: every stored task has a status and a priority of the enumerations, and
\* an insert or update the storage layer rejects changes no row.
C13_StatusAndPriorityAreClosedEnumerations ==
    [][/\ \A t \in tasks' : t.status \in TaskStatuses /\ t.priority \in TaskPriorities
       /\ last'.op \in {"task_insert", "task_update"} /\ last'.note = "constraint" =>
              ~last'.ok /\ tasks' = tasks
      ]_vars

ProfileStatements ==
    {"profile_select", "profile_insert", "profile_update", "profile_delete"}

CreatedProfiles == Ids(profiles') \ Ids(profiles)
MutatedProfiles == {p.id : p \in {x \in profiles : x.id \in Ids(profiles')}} \ Ids(profiles \cap profiles')

\* What C15 and its amendment share: an identity's profile is created at most
\* once (no id has two profiles, no profile goes away to be created again), and
\* a profile is changed only by an update of the principal whose id it carries.
OncePerIdentityAndMutatedByOwner ==
    /\ \A id \in Ids(profiles') : Cardinality({p \in profiles' : p.id = id}) = 1
    /\ Ids(profiles) \subseteq Ids(profiles')
    /\ \A id \in MutatedProfiles : last'.op = "profile_update" /\ last'.by = id

C16_AnonSeesAndChangesNothing ==
    [][last'.op \in TaskStatements \cup CategoryStatements /\ last'.by = Anon =>
         /\ result' = {}
         /\ last'.n = 0
         /\ tasks' = tasks
         /\ categories' = categories
      ]_vars

\* C16: anon selected from tasks while two users had a task each, and from
\* categories while there was a category.
C16_Witness ==
    /\ last.op \in {"task_select", "category_select"} /\ last.by = Anon
    /\ result = {}
    /\ {t.user_id : t \in tasks} = Users
    /\ categories # {}

\* C19: when the trigger has returned the identity is there, and either its
\* profile and its five default categories are, or neither the profile nor any
\* category of the identity is.
C19_TriggerStepsAreAtomic ==
    last.op = "create_identity" =>
        /\ last.ok /\ last.id \in Ids(identities)
        /\ \/ /\ Cardinality(ProfilesOf(last.id)) = 1
              /\ Cardinality(CategoriesOf(last.id)) = 5
              /\ {c.name : c \in CategoriesOf(last.id)} = DefaultNames
           \/ /\ ProfilesOf(last.id) = {}
              /\ CategoriesOf(last.id) = {}

\* C18: a signIn or signUp invoked less than RateLimitCooldown seconds after
\* the most recent rate-limit detection is rejected before a request is sent.
C18_InvocationInsideCooldownIsRejected ==
    (/\ last.op \in {"signIn", "signUp"}
     /\ last.note \in {"sent", "rejected"}
     /\ \E t \in detectedAt : now - t < RateLimitCooldown)
        => last.note = "rejected"

\* C17: the trigger's insert and repair calls for the same identity, in any
\* order, leave exactly one Profile for it; no repair call for an identity
\* returns an error, and identity creation succeeds whatever the trigger's
\* insert did.
C17_FallbackIsSafeToRaceTheTrigger ==
    /\ \A u \in Users : Cardinality(ProfilesOf(u)) <= 1
    /\ last.op = "create_identity" => last.ok
    /\ (last.op = "ensure_user_profile" /\ last.id \in Ids(identities))
          => last.ok /\ Cardinality(ProfilesOf(last.id)) = 1

\* A repair call has just met the profile that the trigger created.
C17_Witness ==
    /\ last.op = "ensure_user_profile"
    /\ last.note = "conflict"
    /\ last.id \in provisioned
    /\ \E k \in CallIds : calls[k].rpcs = 1 /\ calls[k].user = last.id

\* C20: signUp invokes the repair at most once, after the settling delay and
\* the profile query, and never when a Profile of the identity existed at the
\* time of the query.
C20_RepairInvokedOnlyWhenProfileAbsent ==
    \A k \in CallIds :
        /\ calls[k].rpcs <= 1
        /\ (calls[k].pc = "rpc" \/ calls[k].rpcs = 1)
              => /\ now >= calls[k].at + SettlingDelay
                 /\ ~calls[k].existed

\* C20, amended: signUp invokes the repair at most once, after the settling
\* delay and the profile query, and only when the query returned no row.
C20_RepairInvokedOnlyWhenQueryReturnedNoRow ==
    \A k \in CallIds :
        /\ calls[k].rpcs <= 1
        /\ (calls[k].pc = "rpc" \/ calls[k].rpcs = 1)
              => /\ now >= calls[k].at + SettlingDelay
                 /\ ~calls[k].found
        /\ (calls[k].op = "signUp" /\ calls[k].pc = "idle" /\ calls[k].found)
              => calls[k].rpcs = 0

\* signUp has called the repair although the Profile existed when it asked.
C20_Witness ==
    \E k \in CallIds :
        /\ calls[k].rpcs = 1
        /\ calls[k].existed
        /\ ~calls[k].found
        /\ last.op = "ensure_user_profile"

\* C24: a principal that calls get_task_statistics or get_category_statistics
\* with the id of another identity gets zero counts, no rows or a denial,
\* whatever that identity owns.
C24_StatisticsOfAnotherIdentityShowNothing ==
    /\ (last.op = "get_task_statistics" /\ last.by # last.id)
          => (~last.ok \/ result = ZeroTaskStatistics)
    /\ (last.op = "get_category_statistics" /\ last.by # last.id)
          => (~last.ok \/ result = <<>>)

\* C25: every task with a category references a category of the task's own
\* owner.
C25_TaskCategoryBelongsToTaskOwner ==
    \A t \in tasks :
        t.category_id # NULL =>
            \E c \in categories : c.id = t.category_id /\ c.user_id = t.user_id

\* C21: once the Identity Provider has returned the new identity, signUp does
\* not reject: when it has settled it has resolved, error is null and loading
\* is false, whatever the profile query and the repair call came to.
C21_FallbackNeverFailsSignUp ==
    \A k \in CallIds :
        (calls[k].op = "signUp" /\ calls[k].user # NULL) =>
            /\ calls[k].outcome # "rejected"
            /\ calls[k].pc = "idle" =>
                  /\ calls[k].outcome = "resolved"
                  /\ authStore.error = NULL
                  /\ ~authStore.loading

\* A signUp has settled after a fallback request that failed.
C21_Witness ==
    \E k \in CallIds :
        /\ calls[k].op = "signUp" /\ calls[k].user # NULL
        /\ calls[k].pc = "idle"
        /\ last.op = "request_failed"
        /\ last.id = calls[k].user

\* The rows the task store holds.
StoreRows ==
    {taskStore.tasks[i] : i \in DOMAIN taskStore.tasks}
        \cup {taskStore.categories[i] : i \in DOMAIN taskStore.categories}

\* C26: the task store holds rows of the auth store's user only, and none when
\* no user is signed in.
C26_TaskStoreHoldsRowsOfTheUserOnly ==
    /\ authStore.user # NULL => \A x \in StoreRows : x.user_id = authStore.user
    /\ authStore.user = NULL => StoreRows = {}

\* C27: once the listener has handled a sign-out as its last event and no
\* profile load is pending, the store's user is null.
C27_UserIsNullAfterSignOut ==
    (lastEvent = "SIGNED_OUT" /\ loads = {}) => authStore.user = NULL

\* C23: a store operation that got an error from the storage or auth layer
\* has sent the failing request once and rejects.
C23_ErrorsReachTheCallerWithoutRetry ==
    /\ \A r \in ReqIds :
          (requests[r].pc = "idle" /\ requests[r].error \notin {NULL, "no_user"}) =>
              /\ requests[r].outcome = "rejected"
              /\ requests[r].sent = 1
    /\ \A k \in CallIds :
          (calls[k].op \in {"signIn", "signUp"} /\ last.by = k
             /\ last.note \in {"error", "rate_limit"}) => calls[k].outcome = "rejected"

\* The signed-in user's task rows as a fetch would return them.
ServerTasks ==
    {WithCategory(authSession, t) : t \in {x \in tasks : x.user_id = authSession}}

\* C28: when no operation of the task store is in flight and none has failed,
\* the store's tasks are the signed-in user's rows of the storage layer with
\* their committed values.
C28_StoreTasksAreTheServersRows ==
    (/\ authSession \in Users
     /\ \A r \in ReqIds : requests[r].pc = "idle" /\ ~requests[r].failed)
        => /\ {taskStore.tasks[i] : i \in DOMAIN taskStore.tasks} = ServerTasks
           /\ Len(taskStore.tasks) = Cardinality(ServerTasks)

\* C29: loading is true while a fetchTasks, createTask, updateTask or
\* deleteTask call is in flight.
C29_LoadingWhileAnOperationIsInFlight ==
    (\E r \in ReqIds : requests[r].op \in TaskOps /\ requests[r].pc # "idle")
        => taskStore.loading

\* C22: a bulk status update makes one update call for each selected task;
\* when a call has settled, its task has the new status in the storage layer
\* if the call succeeded and the status it had before if it failed, whatever
\* became of the other calls; and the selection is cleared only when every
\* call succeeded.
C22_BulkUpdateIsNotAtomic ==
    /\ bulk.active =>
          /\ {requests[r].id : r \in bulk.members} = selectedTasks
          /\ Cardinality(bulk.members) = Cardinality(selectedTasks)
    /\ \A r \in bulk.members :
          (requests[r].op = "updateTask" /\ requests[r].pc = "idle") =>
              /\ requests[r].sent = 1
              /\ TaskRow(tasks, requests[r].id).status =
                    IF requests[r].error = NULL THEN requests[r].arg
                                                ELSE requests[r].before
    /\ (last.op = "bulk" /\ last.note = "settled" /\ selectedTasks = {}) =>
          \A r \in bulk.members :
              requests[r].outcome = "resolved" /\ requests[r].error = NULL

\* A bulk update of two tasks has settled with one task updated and the other
\* not, and the selection is kept.
C22_Witness ==
    /\ last.op = "bulk" /\ last.note = "settled"
    /\ selectedTasks = TaskIds
    /\ \E a, b \in bulk.members :
          /\ requests[a].pc = "idle" /\ requests[a].error = NULL
          /\ requests[b].pc = "idle" /\ requests[b].error # NULL
          /\ TaskRow(tasks, requests[a].id).status = "completed"
          /\ TaskRow(tasks, requests[b].id).status = "pending"

\* The id of the category object embedded in a task of the store.
EmbeddedCategoryId(x) == IF x.category_id = NULL THEN NULL ELSE x.category.id

\* C30: when deleteCategory(id) has resolved, the store's categories do not
\* contain id and no task of the store has category_id = id or an embedded
\* category with that id.
C30_StoreFollowsSetNull ==
    (last.op = "deleteCategory" /\ last.note = "settled" /\ last.ok) =>
        /\ last.id \notin ListIds(taskStore.categories)
        /\ \A i \in DOMAIN taskStore.tasks :
              /\ taskStore.tasks[i].category_id # last.id
              /\ EmbeddedCategoryId(taskStore.tasks[i]) # last.id

====
